---- MODULE Spec2Model ----
(***************************************************************************)
(* venvcache: a cache of Python virtual environments shared by concurrent  *)
(* processes.  Three parts of the repository are modelled:                 *)
(*   - the usage journal (src/src/journal.rs)          SpecJournal         *)
(*   - the fcntl file lock (src/src/file_lock.rs)      SpecLock            *)
(*   - the driver (src/src/main.rs)                    Spec, SpecWarm      *)
(*   - the fingerprint (src/src/main.rs, venv.rs)      SpecFingerprint     *)
(***************************************************************************)
EXTENDS Integers, Sequences, FiniteSets, TLC

\* ------------------------------------------------------------------ bounds
NumFingerprints == 3
MaxCapacity == 1
MaxCalls == 4
NumLockProcs == 3
NumProcs == 2
MaxStringLen == 2
NumInvocations == 2

\* for _ in 0..5
Tries == 5

Fingerprints == 1..NumFingerprints
Capacities == 0..MaxCapacity
LockProcs == 1..NumLockProcs
Procs == 1..NumProcs
Invocations == 1..NumInvocations

VARIABLES
    \* journal.rs: the `resources` table, Journal.maximum_resources, and the
    \* wall clock read by chrono::Utc::now()
    resources, maximum_resources, clock,
    \* the calls made on the journal so far, with what each returned
    log,
    \* file_lock.rs, one FileLock per process on the same file:
    \*   lpc     where the process is: "closed" (no FileLock), "idle", or the
    \*           FileLock / token method whose fcntl(F_SETLKW) has not returned
    \*   token   the live token of the process's FileLock
    \*   held    the record lock the kernel holds for the process on the file
    \*   issued  the LockOperations the latest method call passed to apply_lock
    lpc, token, held, issued,
    \* main.rs, one process per invocation of the driver:
    \*   pc        the statement of main the process is at (or blocked in)
    \*   shasum    the fingerprint computed from its inputs
    \*   tries     iterations of the loop completed
    \*   builds    calls of create_venv made
    \*   dir       what <root>/<fingerprint> holds: "absent" (no directory),
    \*             "empty" (a directory without bin/python), "python_only"
    \*             (bin/python but no bin/pip), "venv" (both, requirements not
    \*             installed), "complete" (both steps of a build succeeded)
    \*   requirementsFiles  fingerprints whose requirements file is written
    \*   lockFiles          fingerprints whose <root>/<fingerprint>.lock exists
    \*   evictLockFiles     fingerprints whose <root>/<fingerprint>..lock exists
    \*   venvLock  the flock each process holds on <root>/<fingerprint>.lock
    \*   evictLock the flock each process holds on <root>/<fingerprint>..lock
    \*   expired_resources  the list record_usage returned to the process
    pc, shasum, expired_resources, tries, builds,
    dir, requirementsFiles, lockFiles, evictLockFiles, venvLock, evictLock,
    \* the inputs of the fingerprint, one set per invocation compared:
    \*   opt      python: the --python path; python_version: what that
    \*            interpreter prints for --version; requirements: the text
    \*            read_requirements returned
    \*   digests  the fingerprints computed from them: shasum as main.rs:44
    \*            does, venv_sha as venv.rs:93-98 does (<<>>: not yet)
    opt, digests

journalVars == <<resources, maximum_resources, clock>>
histVars == <<log>>
lockVars == <<lpc, token, held, issued>>
procVars == <<pc, shasum, expired_resources, tries, builds>>
fsVars == <<dir, requirementsFiles, lockFiles, evictLockFiles, venvLock, evictLock>>
driverVars == <<procVars, fsVars>>
fingerprintVars == <<opt, digests>>
vars == <<resources, maximum_resources, clock, log, lpc, token, held, issued,
          pc, shasum, expired_resources, tries, builds,
          dir, requirementsFiles, lockFiles, evictLockFiles, venvLock, evictLock,
          opt, digests>>

\* What the actions of one part leave alone.
notLock == <<journalVars, histVars, driverVars, fingerprintVars>>
notJournal == <<lockVars, driverVars, fingerprintVars>>
notDriver == <<histVars, lockVars, fingerprintVars>>
notFingerprint == <<journalVars, histVars, lockVars, driverVars>>

\* No fingerprint is being compared.
FingerprintIdle == opt = <<>> /\ digests = <<>>

\* ----------------------------------------------------------------- journal
\* A row of the table created by Journal::migrate.
Row(f, t) == [fingerprint |-> f, last_used |-> t]

RowFingerprints(rs) == {r.fingerprint : r \in rs}

\* INSERT INTO resources ... ON CONFLICT(fingerprint) DO UPDATE SET last_used=?
Upsert(rs, f, now) ==
    IF \E r \in rs : r.fingerprint = f
    THEN {IF r.fingerprint = f THEN [r EXCEPT !.last_used = now] ELSE r : r \in rs}
    ELSE rs \cup {Row(f, now)}

\* ROW_NUMBER() OVER (ORDER BY last_used DESC).  Rows of equal last_used are
\* numbered in an order SQLite chooses; the clock below never repeats a
\* value, so the secondary order (by fingerprint) is never consulted.
RowNum(rs, r) ==
    1 + Cardinality({q \in rs : \/ q.last_used > r.last_used
                                \/ /\ q.last_used = r.last_used
                                   /\ q.fingerprint < r.fingerprint})

\* ORDER BY last_used ASC, projected on column 0 (row.get(0)).
RECURSIVE OrderAsc(_)
OrderAsc(rs) ==
    IF rs = {} THEN <<>>
    ELSE LET first == CHOOSE r \in rs :
                        \A q \in rs : \/ r.last_used < q.last_used
                                      \/ /\ r.last_used = q.last_used
                                         /\ r.fingerprint >= q.fingerprint
         IN <<first.fingerprint>> \o OrderAsc(rs \ {first})

\* A select that lists the newest expired row first.
ExpiredResources_newest_first(rs, max) ==
    LET asc == OrderAsc({r \in rs : RowNum(rs, r) > max})
    IN [i \in 1..Len(asc) |-> asc[Len(asc) + 1 - i]]

\* SELECT * FROM (...) WHERE row_num > ? ORDER BY last_used ASC
ExpiredResources(rs, max) == OrderAsc({r \in rs : RowNum(rs, r) > max})

\* Journal::record_usage as one call on one connection: the table after the
\* upsert, and the list it returns.
record_usage(rs, max, f, now) ==
    LET after == Upsert(rs, f, now)
    IN [table |-> after, expired |-> ExpiredResources(after, max)]

\* A delete whose WHERE clause is missing, and one that deletes nothing.
mark_deleted_all_rows(rs, f) == {}
mark_deleted_nothing(rs, f) == rs

\* Journal::mark_deleted: DELETE FROM resources WHERE fingerprint = ?
mark_deleted(rs, f) == {r \in rs : r.fingerprint # f}

\* No process has opened a FileLock.
LockIdle ==
    /\ lpc = [p \in LockProcs |-> "closed"]
    /\ token = [p \in LockProcs |-> "none"]
    /\ held = [p \in LockProcs |-> "U"]
    /\ issued = [p \in LockProcs |-> <<>>]

\* ------------------------------------------------------------------ driver
\* No invocation of the driver has started, and the root is empty.
DriverIdle ==
    /\ pc = [p \in Procs |-> "record_usage"]
    /\ shasum = [p \in Procs |-> 1]
    /\ tries = [p \in Procs |-> 0]
    /\ builds = [p \in Procs |-> 0]
    /\ dir = [f \in Fingerprints |-> "absent"]
    /\ requirementsFiles = {}
    /\ lockFiles = {}
    /\ evictLockFiles = {}
    /\ venvLock = [f \in Fingerprints |-> [p \in Procs |-> "U"]]
    /\ evictLock = [f \in Fingerprints |-> [p \in Procs |-> "U"]]
    /\ expired_resources = [p \in Procs |-> <<>>]

\* fd_lock::RwLock (flock): what the other processes hold on the file.
OthersHold(lk, f, p) == {lk[f][q] : q \in Procs \ {p}}

\* The process ends (return from main, or std::process::exit): its files are
\* closed and the kernel drops its locks.
Unlocked(lk, p) == [f \in Fingerprints |-> [lk[f] EXCEPT ![p] = "U"]]

\* venv_dir.exists()
exists(f) == dir[f] # "absent"

\* <venv_dir>/bin/python can be executed.
has_python(f) == dir[f] \in {"python_only", "venv", "complete"}

\* <venv_dir>/bin/pip can be executed.
has_pip(f) == dir[f] \in {"venv", "complete"}

\* What a builder step that ends without success can leave of the directory.
LeftBehind(f) ==
    CASE dir[f] = "absent" -> {"absent", "empty", "python_only"}
      [] dir[f] = "empty" -> {"empty", "python_only"}
      [] OTHER -> {dir[f]}

\* main.rs:48, first statement of Journal::record_usage: the upsert.
RecordUpsert(p) ==
    /\ pc[p] = "record_usage"
    /\ resources' = Upsert(resources, shasum[p], clock)
    /\ clock' = clock + 1
    /\ pc' = [pc EXCEPT ![p] = "select"]
    /\ UNCHANGED <<maximum_resources, shasum, expired_resources, tries, builds, fsVars, notDriver>>

\* main.rs:48, `if let Some(venv_to_delete_shasum) = ..`: of the list that
\* record_usage returned, the driver takes one fingerprint, the least
\* recently used (0: the list is empty, there is none).
venv_to_delete_shasum(p) ==
    IF expired_resources[p] = <<>> THEN 0 ELSE expired_resources[p][1]

\* main.rs:48, second statement of Journal::record_usage (journal.rs:55-74),
\* and the `if let Some(..)` on what it returns.
RecordSelect(p) ==
    /\ pc[p] = "select"
    /\ LET expired == ExpiredResources(resources, maximum_resources)
       IN /\ expired_resources' = [expired_resources EXCEPT ![p] = expired]
          /\ IF expired = <<>>
             THEN pc' = [pc EXCEPT ![p] = "get_venv_lock"]
             ELSE pc' = [pc EXCEPT ![p] = "open_lock"]
    /\ UNCHANGED <<journalVars, shasum, tries, builds, fsVars, notDriver>>

\* main.rs:50, File::open(venv_to_delete.with_extension(".lock")): the path
\* is <root>/<fingerprint>..lock (with_extension adds its own dot), which
\* nothing in the driver creates; opening a missing file is an Err.
OpenLockMissing(p) ==
    /\ pc[p] = "open_lock"
    /\ venv_to_delete_shasum(p) \notin evictLockFiles
    /\ pc' = [pc EXCEPT ![p] = "exit_err"]
    /\ UNCHANGED <<journalVars, shasum, expired_resources, tries, builds, fsVars, notDriver>>

OpenLock(p) ==
    /\ pc[p] = "open_lock"
    /\ venv_to_delete_shasum(p) \in evictLockFiles
    /\ pc' = [pc EXCEPT ![p] = "evict_write"]
    /\ UNCHANGED <<journalVars, shasum, expired_resources, tries, builds, fsVars, notDriver>>

\* main.rs:51, venv_to_delete_lock.write() returns.
EvictWrite(p) ==
    /\ pc[p] = "evict_write"
    /\ OthersHold(evictLock, venv_to_delete_shasum(p), p) \subseteq {"U"}
    /\ evictLock' = [evictLock EXCEPT ![venv_to_delete_shasum(p)][p] = "W"]
    /\ pc' = [pc EXCEPT ![p] = "remove_dir_all"]
    /\ UNCHANGED <<journalVars, shasum, expired_resources, tries, builds, dir, requirementsFiles,
                   lockFiles, evictLockFiles, venvLock, notDriver>>

\* main.rs:52, std::fs::remove_dir_all(venv_to_delete)?: an Err when there is
\* no such directory.
RemoveDirAll(p) ==
    /\ pc[p] = "remove_dir_all"
    /\ IF exists(venv_to_delete_shasum(p))
       THEN /\ dir' = [dir EXCEPT ![venv_to_delete_shasum(p)] = "absent"]
            /\ pc' = [pc EXCEPT ![p] = "mark_deleted"]
            /\ UNCHANGED evictLock
       ELSE /\ pc' = [pc EXCEPT ![p] = "exit_err"]
            /\ evictLock' = Unlocked(evictLock, p)
            /\ UNCHANGED dir
    /\ UNCHANGED <<journalVars, shasum, expired_resources, tries, builds, requirementsFiles,
                   lockFiles, evictLockFiles, venvLock, notDriver>>

\* MarkVictimDeleted with mark_deleted given the process's own fingerprint
\* instead of the one whose directory it removed.
MarkVictimDeleted_own_row(p) ==
    /\ pc[p] = "mark_deleted"
    /\ resources' = mark_deleted(resources, shasum[p])
    /\ evictLock' = Unlocked(evictLock, p)
    /\ pc' = [pc EXCEPT ![p] = "get_venv_lock"]
    /\ UNCHANGED <<maximum_resources, clock, shasum, expired_resources, tries, builds, dir,
                   requirementsFiles, lockFiles, evictLockFiles, venvLock, notDriver>>

\* main.rs:53-54, journal.mark_deleted, then the guard goes out of scope.
MarkVictimDeleted(p) ==
    /\ pc[p] = "mark_deleted"
    /\ resources' = mark_deleted(resources, venv_to_delete_shasum(p))
    /\ evictLock' = Unlocked(evictLock, p)
    /\ pc' = [pc EXCEPT ![p] = "get_venv_lock"]
    /\ UNCHANGED <<maximum_resources, clock, shasum, expired_resources, tries, builds, dir,
                   requirementsFiles, lockFiles, evictLockFiles, venvLock, notDriver>>

\* main.rs:56-57, get_venv_lock: File::create(<root>/<fingerprint>.lock).
get_venv_lock(p) ==
    /\ pc[p] = "get_venv_lock"
    /\ lockFiles' = lockFiles \cup {shasum[p]}
    /\ pc' = [pc EXCEPT ![p] = "read"]
    /\ UNCHANGED <<journalVars, shasum, expired_resources, tries, builds, dir, requirementsFiles,
                   evictLockFiles, venvLock, evictLock, notDriver>>

\* A guard bound to `_`, dropped (and the file unlocked) in the same statement.
VenvRead_guard_dropped(p) ==
    /\ pc[p] = "read"
    /\ "W" \notin OthersHold(venvLock, shasum[p], p)
    /\ pc' = [pc EXCEPT ![p] = "exists"]
    /\ UNCHANGED <<journalVars, shasum, expired_resources, tries, builds, fsVars, notDriver>>

\* main.rs:60, venv_rwlock.read() returns (flock is taken to fail only by
\* blocking); the guard lives to the end of the block.
VenvRead(p) ==
    /\ pc[p] = "read"
    /\ "W" \notin OthersHold(venvLock, shasum[p], p)
    /\ venvLock' = [venvLock EXCEPT ![shasum[p]][p] = "R"]
    /\ pc' = [pc EXCEPT ![p] = "exists"]
    /\ UNCHANGED <<journalVars, shasum, expired_resources, tries, builds, dir, requirementsFiles,
                   lockFiles, evictLockFiles, evictLock, notDriver>>

\* Exists with the read guard of main.rs:60 still alive when the process goes
\* on to write(): the guard's block would end after the write block.
Exists_keeps_read_guard(p) ==
    /\ pc[p] = "exists"
    /\ pc' = [pc EXCEPT ![p] = IF exists(shasum[p]) THEN "run_python" ELSE "write"]
    /\ UNCHANGED <<journalVars, shasum, expired_resources, tries, builds, dir, requirementsFiles,
                   lockFiles, evictLockFiles, evictLock, venvLock, notDriver>>

\* main.rs:61-64, venv_dir.exists(): run_python when it does, else the read
\* guard is dropped and the process goes on to write().
Exists(p) ==
    /\ pc[p] = "exists"
    /\ IF exists(shasum[p])
       THEN /\ pc' = [pc EXCEPT ![p] = "run_python"]
            /\ UNCHANGED venvLock
       ELSE /\ pc' = [pc EXCEPT ![p] = "write"]
            /\ venvLock' = Unlocked(venvLock, p)
    /\ UNCHANGED <<journalVars, shasum, expired_resources, tries, builds, dir, requirementsFiles,
                   lockFiles, evictLockFiles, evictLock, notDriver>>

\* main.rs:96-101, Command::new(<venv_dir>/bin/python).status(): the child is
\* started, or the spawn fails and the process exits with 1.
run_python(p) ==
    /\ pc[p] = "run_python"
    /\ IF has_python(shasum[p])
       THEN /\ pc' = [pc EXCEPT ![p] = "child"]
            /\ UNCHANGED venvLock
       ELSE /\ pc' = [pc EXCEPT ![p] = "exit_1"]
            /\ venvLock' = Unlocked(venvLock, p)
    /\ UNCHANGED <<journalVars, shasum, expired_resources, tries, builds, dir, requirementsFiles,
                   lockFiles, evictLockFiles, evictLock, notDriver>>

\* main.rs:103-109, the child has ended: exit with its code, or with 127
\* when a signal ended it.
ChildExit(p) ==
    /\ pc[p] = "child"
    /\ \E to \in {"exit_child", "exit_127"} : pc' = [pc EXCEPT ![p] = to]
    /\ venvLock' = Unlocked(venvLock, p)
    /\ UNCHANGED <<journalVars, shasum, expired_resources, tries, builds, dir, requirementsFiles,
                   lockFiles, evictLockFiles, evictLock, notDriver>>

\* A guard bound to `_`, dropped (and the file unlocked) in the same statement.
VenvWrite_guard_dropped(p) ==
    /\ pc[p] = "write"
    /\ OthersHold(venvLock, shasum[p], p) \subseteq {"U"}
    /\ builds' = [builds EXCEPT ![p] = @ + 1]
    /\ pc' = [pc EXCEPT ![p] = "venv"]
    /\ UNCHANGED <<journalVars, shasum, expired_resources, tries, fsVars, notDriver>>

\* main.rs:67-68, venv_rwlock.write() returns and create_venv is entered: the
\* `python -m venv` child is started.
VenvWrite(p) ==
    /\ pc[p] = "write"
    /\ OthersHold(venvLock, shasum[p], p) \subseteq {"U"}
    /\ venvLock' = [venvLock EXCEPT ![shasum[p]][p] = "W"]
    /\ builds' = [builds EXCEPT ![p] = @ + 1]
    /\ pc' = [pc EXCEPT ![p] = "venv"]
    /\ UNCHANGED <<journalVars, shasum, expired_resources, tries, dir, requirementsFiles,
                   lockFiles, evictLockFiles, evictLock, notDriver>>

\* main.rs:113-117, `python -m venv <venv_dir>` has ended with success: the
\* directory holds bin/python and bin/pip (what was installed in it stays).
VenvStepOk(p) ==
    /\ pc[p] = "venv"
    /\ dir' = [dir EXCEPT ![shasum[p]] = IF @ = "complete" THEN "complete" ELSE "venv"]
    /\ pc' = [pc EXCEPT ![p] = "requirements"]
    /\ UNCHANGED <<journalVars, shasum, expired_resources, tries, builds, requirementsFiles,
                   lockFiles, evictLockFiles, venvLock, evictLock, notDriver>>

\* main.rs:116-117, it could not be run or ended without success: create_venv
\* returns Err, main returns it, and whatever the step made stays on disk.
VenvStepFailed(p) ==
    /\ pc[p] = "venv"
    /\ \E left \in LeftBehind(shasum[p]) : dir' = [dir EXCEPT ![shasum[p]] = left]
    /\ pc' = [pc EXCEPT ![p] = "exit_err"]
    /\ venvLock' = Unlocked(venvLock, p)
    /\ UNCHANGED <<journalVars, shasum, expired_resources, tries, builds, requirementsFiles,
                   lockFiles, evictLockFiles, evictLock, notDriver>>

\* main.rs:119-129, the requirements file is written and bin/pip is started;
\* an Err when bin/pip is not there to start.
WriteRequirements(p) ==
    /\ pc[p] = "requirements"
    /\ requirementsFiles' = requirementsFiles \cup {shasum[p]}
    /\ IF has_pip(shasum[p])
       THEN /\ pc' = [pc EXCEPT ![p] = "pip"]
            /\ UNCHANGED venvLock
       ELSE /\ pc' = [pc EXCEPT ![p] = "exit_err"]
            /\ venvLock' = Unlocked(venvLock, p)
    /\ UNCHANGED <<journalVars, shasum, expired_resources, tries, builds, dir,
                   lockFiles, evictLockFiles, evictLock, notDriver>>

\* main.rs:129-135 and 69-70, `pip install -r` has ended with success:
\* create_venv returns Ok, the write guard is dropped and the loop goes round;
\* after the fifth round main prints its failure and exits with 1.
PipStepOk(p) ==
    /\ pc[p] = "pip"
    /\ has_pip(shasum[p])
    /\ dir' = [dir EXCEPT ![shasum[p]] = "complete"]
    /\ venvLock' = Unlocked(venvLock, p)
    /\ tries' = [tries EXCEPT ![p] = @ + 1]
    /\ pc' = [pc EXCEPT ![p] = IF tries[p] + 1 = Tries THEN "exit_1" ELSE "read"]
    /\ UNCHANGED <<journalVars, shasum, expired_resources, builds, requirementsFiles,
                   lockFiles, evictLockFiles, evictLock, notDriver>>

\* main.rs:130-133, it ended without success: create_venv returns Err, main
\* returns it, and the directory stays as the steps left it.
PipStepFailed(p) ==
    /\ pc[p] = "pip"
    /\ \E left \in (IF exists(shasum[p]) THEN {dir[shasum[p]]} ELSE {"absent", "empty"}) :
          dir' = [dir EXCEPT ![shasum[p]] = left]
    /\ pc' = [pc EXCEPT ![p] = "exit_err"]
    /\ venvLock' = Unlocked(venvLock, p)
    /\ UNCHANGED <<journalVars, shasum, expired_resources, tries, builds, requirementsFiles,
                   lockFiles, evictLockFiles, evictLock, notDriver>>

\* Fingerprints are opaque: the first invocation's is called 1, and each
\* further invocation has one already in use or the next unused one.
Shasums ==
    {s \in [Procs -> Fingerprints] :
        \A p \in Procs : s[p] <= 1 + Cardinality({s[q] : q \in 1..(p - 1)})}

\* Invocations of the driver started together on a root that holds no
\* environment and a new journal file; all are given the same --maximum-venvs.
\* The root may hold files of other origin, among them <fingerprint>..lock.
Init ==
    /\ resources = {}
    /\ maximum_resources \in Capacities
    /\ clock = 1
    /\ log = <<>>
    /\ LockIdle
    /\ FingerprintIdle
    /\ pc = [p \in Procs |-> "record_usage"]
    /\ shasum \in Shasums
    /\ tries = [p \in Procs |-> 0]
    /\ builds = [p \in Procs |-> 0]
    /\ dir = [f \in Fingerprints |-> "absent"]
    /\ requirementsFiles = {}
    /\ lockFiles = {}
    /\ evictLockFiles \in SUBSET {shasum[p] : p \in Procs}
    /\ venvLock = [f \in Fingerprints |-> [p \in Procs |-> "U"]]
    /\ evictLock = [f \in Fingerprints |-> [p \in Procs |-> "U"]]
    /\ expired_resources = [p \in Procs |-> <<>>]

Next ==
    \E p \in Procs :
        \/ RecordUpsert(p)
        \/ RecordSelect(p)
        \/ OpenLockMissing(p)
        \/ OpenLock(p)
        \/ EvictWrite(p)
        \/ RemoveDirAll(p)
        \/ MarkVictimDeleted(p)
        \/ get_venv_lock(p)
        \/ VenvRead(p)
        \/ Exists(p)
        \/ run_python(p)
        \/ ChildExit(p)
        \/ VenvWrite(p)
        \/ VenvStepOk(p)
        \/ VenvStepFailed(p)
        \/ WriteRequirements(p)
        \/ PipStepOk(p)
        \/ PipStepFailed(p)

Spec == Init /\ [][Next]_vars

\* The fingerprint of an invocation that ran alone, to the end and with
\* success, before the ones modelled start; no later invocation shares it.
Earlier == NumFingerprints

\* Invocations of the driver started together on the root that the earlier
\* invocation left: its journal row, its complete environment, its lock file
\* and its requirements file (main.rs:48, 56-57, 112-136); its locks went
\* with the process.  That invocation needed a capacity of at least one.
InitWarm ==
    /\ resources = {Row(Earlier, 1)}
    /\ maximum_resources \in Capacities \ {0}
    /\ clock = 2
    /\ log = <<>>
    /\ LockIdle
    /\ FingerprintIdle
    /\ pc = [p \in Procs |-> "record_usage"]
    /\ shasum \in Shasums
    /\ tries = [p \in Procs |-> 0]
    /\ builds = [p \in Procs |-> 0]
    /\ dir = [f \in Fingerprints |-> IF f = Earlier THEN "complete" ELSE "absent"]
    /\ requirementsFiles = {Earlier}
    /\ lockFiles = {Earlier}
    /\ evictLockFiles \in SUBSET ({shasum[p] : p \in Procs} \cup {Earlier})
    /\ venvLock = [f \in Fingerprints |-> [p \in Procs |-> "U"]]
    /\ evictLock = [f \in Fingerprints |-> [p \in Procs |-> "U"]]
    /\ expired_resources = [p \in Procs |-> <<>>]

SpecWarm == InitWarm /\ [][Next]_vars

\* ------------------------------------------------------- driver properties
RECURSIVE TotalBuilds(_)
TotalBuilds(ps) ==
    IF ps = {} THEN 0
    ELSE LET p == CHOOSE q \in ps : TRUE IN builds[p] + TotalBuilds(ps \ {p})

\* Every invocation has the same fingerprint, nothing is evicted, and no
\* builder step has failed.
SameFingerprintRuns ==
    /\ \A p, q \in Procs : shasum[p] = shasum[q]
    /\ maximum_resources >= 1
    /\ \A p \in Procs : pc[p] # "exit_err"

Building(p, f) == shasum[p] = f /\ pc[p] \in {"venv", "requirements", "pip"}
Deleting(p, f) == venv_to_delete_shasum(p) = f /\ pc[p] = "remove_dir_all"
Executing(p, f) == shasum[p] = f /\ pc[p] = "child"

\* C1: when the invocations all run the same fingerprint from an empty root,
\* the builder is invoked once in total: whoever gets the write lock second
\* finds the environment there and does not build.
C1_BuilderInvokedOnce ==
    SameFingerprintRuns => TotalBuilds(Procs) <= 1

\* C2: no process builds or deletes the environment of a fingerprint while
\* another process builds, deletes or executes the interpreter of the same
\* fingerprint.
C2_BuildDeleteExclusive ==
    \A f \in Fingerprints : \A p \in Procs : \A q \in Procs \ {p} :
        (Building(p, f) \/ Deleting(p, f))
            => ~(Building(q, f) \/ Deleting(q, f) \/ Executing(q, f))

\* C3: from the check that the environment exists until its child has ended,
\* a process holds a shared or an exclusive lock on <fingerprint>.lock.
C3_RunHoldsReadLock ==
    \A p \in Procs :
        pc[p] \in {"exists", "run_python", "child"}
            => venvLock[shasum[p]][p] \in {"R", "W"}

C3_Witness ==
    \E p \in Procs : pc[p] = "child" /\ venvLock[shasum[p]][p] = "R"

\* C4: through all of create_venv (the venv step, the requirements file, the
\* pip step) the process holds the exclusive lock on <fingerprint>.lock, and
\* no other process holds a lock on it.
C4_BuildHoldsWriteLock ==
    \A p \in Procs :
        pc[p] \in {"venv", "requirements", "pip"}
            => /\ venvLock[shasum[p]][p] = "W"
               /\ OthersHold(venvLock, shasum[p], p) \subseteq {"U"}

C4_Witness ==
    \E p \in Procs : \E q \in Procs \ {p} :
        /\ pc[p] = "pip" /\ venvLock[shasum[p]][p] = "W"
        /\ shasum[q] = shasum[p] /\ pc[q] \in {"read", "write"}

\* C5: a process removes the environment directory of a fingerprint only
\* while it holds the exclusive lock on <fingerprint>.lock, the file that
\* runs and builds of that fingerprint lock.
C5_DeleteHoldsVenvWriteLock ==
    \A p \in Procs :
        pc[p] = "mark_deleted" => venvLock[venv_to_delete_shasum(p)][p] = "W"

\* C6: an environment directory that exists, and that no process is building,
\* is the product of a build whose two steps succeeded; no interpreter runs
\* in an environment whose build failed part-way.
C6_ExistingDirIsComplete ==
    /\ \A f \in Fingerprints :
          (exists(f) /\ \A p \in Procs : ~Building(p, f)) => dir[f] = "complete"
    /\ \A p \in Procs : pc[p] = "child" => dir[shasum[p]] = "complete"

\* Both processes were given the same interpreter and requirements and a
\* capacity of at least one.
IdenticalInputs ==
    /\ maximum_resources >= 1
    /\ \A p, q \in Procs : shasum[p] = shasum[q]

\* A step of the builder failed (main.rs:118, 129, 133) and ended its process.
BuilderFailed == \E p \in Procs : pc[p] = "exit_err"

\* Every process has started its child and exited with the child's code
\* (main.rs:103-109).
AllRanChild == \A p \in Procs : pc[p] \in {"exit_child", "exit_127"}

\* C11: two processes started with identical inputs on an empty root both
\* start their child interpreter and exit with its code, whatever the order
\* of their lock requests.  Unless the builder itself failed, a run can only
\* come to rest where both processes have exited with their child's code:
\* none is left waiting for a lock, none gives up after its tries and none
\* exits without having run; and the loop of main.rs:58 bounds every run.
C11_BothRunAndTerminate ==
    IdenticalInputs =>
        /\ \A p \in Procs : tries[p] <= Tries
        /\ BuilderFailed \/ \A p \in Procs : pc[p] # "exit_1"
        /\ AllRanChild \/ BuilderFailed \/ ENABLED Next

\* Both processes of one fingerprint have exited with their child's code and
\* one of them had to wait for the other's build.
C11_Witness == IdenticalInputs /\ AllRanChild /\ TotalBuilds(Procs) >= 1

\* The child interpreter of the process has come to an end (main.rs:103-109).
RunSucceeded(p) == pc[p] \in {"exit_child", "exit_127"}

\* C12: a fingerprint is recorded in the journal only after a run of it has
\* succeeded, so an invocation whose build or run fails leaves the journal as
\* it found it.
C12_RecordedOnlyAfterRun ==
    \A f \in RowFingerprints(resources) :
        \E p \in Procs : shasum[p] = f /\ RunSucceeded(p)

\* C13: with a capacity of at least one, the list record_usage(f) returns to
\* a process does not hold f, the fingerprint the process is about to run.
C13_OwnFingerprintNotExpired ==
    maximum_resources >= 1 =>
        \A p \in Procs :
            \A i \in DOMAIN expired_resources[p] : expired_resources[p][i] # shasum[p]

\* C14: deleting does not fail for want of what it deletes: when the lock
\* file of the fingerprint is missing it is created, and when the directory
\* is missing the delete succeeds all the same.
C14_DeleteIsIdempotent ==
    [][\A p \in Procs :
          pc[p] \in {"open_lock", "remove_dir_all"} => pc'[p] # "exit_err"]_vars

\* C16: when a process has finished evicting, every fingerprint of the list
\* record_usage returned to it, not only the first, has had its directory
\* deleted and its journal row removed by that process; its own fingerprint,
\* should the list hold it, is left out of the count here.  (A process is at
\* get_venv_lock with a list that is not empty only after it has removed the
\* directory and the row of venv_to_delete_shasum.)
C16_WholeListEvicted ==
    \A p \in Procs :
        pc[p] = "get_venv_lock" =>
            \A i \in DOMAIN expired_resources[p] :
                \/ expired_resources[p][i] = venv_to_delete_shasum(p)
                \/ expired_resources[p][i] = shasum[p]

\* C17: the interpreter is never started in an environment a failed build
\* left incomplete: such a directory counts as missing and is built again.
C17_IncompleteEnvNotRun ==
    \A p \in Procs :
        pc[p] = "run_python" => dir[shasum[p]] \in {"complete", "absent"}

\* C18: a process that has built its environment keeps a lock on it from the
\* build until its child has ended, and so builds at most once.
C18_LockKeptFromBuildToExit ==
    \A p \in Procs :
        /\ builds[p] <= 1
        /\ (builds[p] >= 1 /\ pc[p] \in {"read", "exists", "run_python", "child"})
               => venvLock[shasum[p]][p] # "U"

\* The directory of f exists while the journal holds no row of f.
Orphan(f) == exists(f) /\ f \notin RowFingerprints(resources)

\* Process q has removed the directory of f and its journal row: it took f
\* from its list and has left main.rs:48-54 by the closing brace (an error of
\* File::open or remove_dir_all ends the process before any build).
HasEvicted(q, f) ==
    /\ venv_to_delete_shasum(q) = f
    /\ pc[q] \notin {"record_usage", "select", "open_lock", "evict_write",
                     "remove_dir_all", "mark_deleted"}
    /\ pc[q] = "exit_err" => builds[q] >= 1

\* C19: an environment directory whose fingerprint the journal does not know
\* comes about through the eviction race and in no other way: a process has
\* built the directory of f, and a process that was handed f as evictable
\* has removed the directory and the row of f.
C19_OrphanOnlyByEvictionRace ==
    \A f \in Fingerprints :
        Orphan(f) => /\ \E p \in Procs : shasum[p] = f /\ builds[p] >= 1
                     /\ \E q \in Procs : HasEvicted(q, f)

\* The race has run its course: P2 was handed F1, removed its directory and
\* its row, P1 built F1 after that and ran it; both have exited, the complete
\* directory of F1 is there and the journal has no row of F1.
C19_Witness ==
    \E p, q \in Procs :
        /\ p # q
        /\ shasum[p] # shasum[q]
        /\ HasEvicted(q, shasum[p])
        /\ builds[p] >= 1
        /\ RunSucceeded(p) /\ RunSucceeded(q)
        /\ Orphan(shasum[p]) /\ dir[shasum[p]] = "complete"

\* --------------------------------------------------------------- file lock
\* What fcntl(fd, F_SETLKW, {l_type, SEEK_SET, 0, 0}) does to the kernel's
\* whole-file record locks once it returns 0: the caller's lock on the file
\* is replaced by the requested one in that one call.
apply_lock(h, p, operation) ==
    [h EXCEPT ![p] = CASE operation = "Read" -> "R"
                       [] operation = "Write" -> "W"
                       [] operation = "Unlock" -> "U"]

\* Another process's lock that keeps F_SETLKW from returning.
Conflicts(h, p, operation, q) ==
    /\ q # p
    /\ \/ operation = "Read" /\ h[q] = "W"
       \/ operation = "Write" /\ h[q] # "U"

Grantable(h, p, operation) == \A q \in LockProcs : ~Conflicts(h, p, operation, q)

\* The LockOperation of the fcntl a method is blocked in.
Requested(method) ==
    CASE method = "read" -> "Read"
      [] method = "write" -> "Write"
      [] method = "upgrade" -> "Write"
      [] method = "downgrade" -> "Read"

\* The token a method returns on success.
Returned(method) ==
    CASE method = "read" -> "read"
      [] method = "write" -> "write"
      [] method = "upgrade" -> "write"
      [] method = "downgrade" -> "read"

Pending(p) == lpc[p] \in {"read", "write", "upgrade", "downgrade"}

\* p's fcntl is blocked by a lock of q.
WaitsFor(p, q) == Pending(p) /\ Conflicts(held, p, Requested(lpc[p]), q)

RECURSIVE WaitChain(_, _, _)
WaitChain(p, q, n) ==
    \/ WaitsFor(p, q)
    \/ n > 0 /\ \E r \in LockProcs : WaitsFor(p, r) /\ WaitChain(r, q, n - 1)

\* The kernel's deadlock detection: blocking p would close a cycle of waiters.
Deadlocked(p) == WaitChain(p, p, NumLockProcs)

\* FileLock::new: open the file; no lock is taken.
FileLockNew(p) ==
    /\ lpc[p] = "closed"
    /\ lpc' = [lpc EXCEPT ![p] = "idle"]
    /\ issued' = [issued EXCEPT ![p] = <<>>]
    /\ UNCHANGED <<token, held, notLock>>

\* The FileLock goes out of scope: the File is closed, and closing a file
\* descriptor drops every record lock the process has on the file.  The borrow
\* checker allows it only when no token is live.
FileLockDrop(p) ==
    /\ lpc[p] = "idle" /\ token[p] = "none"
    /\ lpc' = [lpc EXCEPT ![p] = "closed"]
    /\ held' = [held EXCEPT ![p] = "U"]
    /\ issued' = [issued EXCEPT ![p] = <<>>]
    /\ UNCHANGED <<token, notLock>>

\* FileLock::read -> ReadLock::new, up to the fcntl call.
read(p) ==
    /\ lpc[p] = "idle" /\ token[p] = "none"
    /\ lpc' = [lpc EXCEPT ![p] = "read"]
    /\ issued' = [issued EXCEPT ![p] = <<"Read">>]
    /\ UNCHANGED <<token, held, notLock>>

\* FileLock::write -> WriteLock::new, up to the fcntl call.
write(p) ==
    /\ lpc[p] = "idle" /\ token[p] = "none"
    /\ lpc' = [lpc EXCEPT ![p] = "write"]
    /\ issued' = [issued EXCEPT ![p] = <<"Write">>]
    /\ UNCHANGED <<token, held, notLock>>

\* An upgrade that unlocks the file and then locks it again.
upgrade_unlock_relock(p) ==
    /\ lpc[p] = "idle" /\ token[p] = "read"
    /\ token' = [token EXCEPT ![p] = "none"]
    /\ held' = apply_lock(held, p, "Unlock")
    /\ lpc' = [lpc EXCEPT ![p] = "upgrade"]
    /\ issued' = [issued EXCEPT ![p] = <<"Unlock", "Write">>]
    /\ UNCHANGED notLock

\* ReadLock::upgrade, up to the fcntl call: the file is taken out of the
\* ReadLock (so its Drop unlocks nothing) and handed to WriteLock::new.
upgrade(p) ==
    /\ lpc[p] = "idle" /\ token[p] = "read"
    /\ token' = [token EXCEPT ![p] = "none"]
    /\ lpc' = [lpc EXCEPT ![p] = "upgrade"]
    /\ issued' = [issued EXCEPT ![p] = <<"Write">>]
    /\ UNCHANGED <<held, notLock>>

\* WriteLock::downgrade, up to the fcntl call.
downgrade(p) ==
    /\ lpc[p] = "idle" /\ token[p] = "write"
    /\ token' = [token EXCEPT ![p] = "none"]
    /\ lpc' = [lpc EXCEPT ![p] = "downgrade"]
    /\ issued' = [issued EXCEPT ![p] = <<"Read">>]
    /\ UNCHANGED <<held, notLock>>

\* fcntl returns 0: apply_lock returns Ok and the method builds its token.
LockGranted(p) ==
    /\ Pending(p)
    /\ Grantable(held, p, Requested(lpc[p]))
    /\ held' = apply_lock(held, p, Requested(lpc[p]))
    /\ token' = [token EXCEPT ![p] = Returned(lpc[p])]
    /\ lpc' = [lpc EXCEPT ![p] = "idle"]
    /\ UNCHANGED <<issued, notLock>>

\* fcntl returns -1 (EDEADLK): apply_lock returns Err, the method returns it
\* with `?` before any token is built; the kernel's locks are as they were.
LockFailed(p) ==
    /\ Pending(p)
    /\ Deadlocked(p)
    /\ lpc' = [lpc EXCEPT ![p] = "idle"]
    /\ UNCHANGED <<token, held, issued, notLock>>

\* Drop of a token that still has its file: apply_lock(Unlock), which never
\* blocks.
TokenDrop(p) ==
    /\ lpc[p] = "idle" /\ token[p] # "none"
    /\ held' = apply_lock(held, p, "Unlock")
    /\ token' = [token EXCEPT ![p] = "none"]
    /\ issued' = [issued EXCEPT ![p] = <<"Unlock">>]
    /\ UNCHANGED <<lpc, notLock>>

LockInit ==
    /\ LockIdle
    /\ FingerprintIdle
    /\ resources = {}
    /\ maximum_resources = 0
    /\ clock = 1
    /\ log = <<>>
    /\ DriverIdle

LockNext ==
    \E p \in LockProcs :
        \/ FileLockNew(p)
        \/ FileLockDrop(p)
        \/ read(p)
        \/ write(p)
        \/ upgrade(p)
        \/ downgrade(p)
        \/ LockGranted(p)
        \/ LockFailed(p)
        \/ TokenDrop(p)

SpecLock == LockInit /\ [][LockNext]_vars

\* C7: from the call of upgrade or downgrade until its return, with Ok or
\* with Err, the caller holds a shared or an exclusive lock, no other process
\* holds an exclusive lock, and no Unlock is passed to apply_lock.
C7_ModeChangeKeepsLock ==
    [][\A p \in LockProcs :
          (lpc[p] \in {"upgrade", "downgrade"} \/ lpc'[p] \in {"upgrade", "downgrade"})
          => /\ held[p] # "U" /\ held'[p] # "U"
             /\ \A i \in 1..Len(issued'[p]) : issued'[p][i] # "Unlock"
             /\ \A q \in LockProcs \ {p} : held[q] # "W" /\ held'[q] # "W"]_vars

\* An upgrade blocked by another reader, still holding its shared lock.
C7_Witness ==
    \E p \in LockProcs : \E q \in LockProcs \ {p} :
        /\ lpc[p] = "upgrade" /\ held[p] = "R"
        /\ held[q] = "R" /\ token[q] = "read"

\* C20: a lock taken through a FileLock is released on every way out of its
\* token's scope: a process that has no live token and no call in progress,
\* be it after upgrade() or downgrade() returned an error, holds no lock on
\* the file.
C20_NoTokenNoLock ==
    \A p \in LockProcs :
        (lpc[p] = "idle" /\ token[p] = "none") => held[p] = "U"

\* --------------------------------------------------- journal specification
\* Journal::new on a fresh database file with capacity `maximum_resources`.
JournalInit ==
    /\ resources = {}
    /\ maximum_resources \in Capacities
    /\ clock = 1
    /\ log = <<>>
    /\ LockIdle
    /\ FingerprintIdle
    /\ DriverIdle

RecordUsage(f) ==
    /\ Len(log) < MaxCalls
    /\ LET res == record_usage(resources, maximum_resources, f, clock)
       IN /\ resources' = res.table
          /\ log' = Append(log, [op |-> "record_usage", f |-> f,
                                 ret |-> res.expired, after |-> res.table])
    /\ clock' = clock + 1
    /\ UNCHANGED <<maximum_resources, notJournal>>

MarkDeleted(f) ==
    /\ Len(log) < MaxCalls
    /\ resources' = mark_deleted(resources, f)
    /\ log' = Append(log, [op |-> "mark_deleted", f |-> f,
                           ret |-> <<>>, after |-> resources'])
    /\ UNCHANGED <<maximum_resources, clock, notJournal>>

JournalNext ==
    \/ \E f \in Fingerprints : RecordUsage(f)
    \/ \E f \in Fingerprints : MarkDeleted(f)

SpecJournal == JournalInit /\ [][JournalNext]_vars

\* ------------------------------------------------------ journal properties
Range(s) == {s[i] : i \in 1..Len(s)}
Excess(n) == IF n > maximum_resources THEN n - maximum_resources ELSE 0

\* The calls so far are record_usage calls on pairwise distinct fingerprints.
DistinctRecordsOnly ==
    /\ \A k \in 1..Len(log) : log[k].op = "record_usage"
    /\ \A i, j \in 1..Len(log) : i # j => log[i].f # log[j].f

Before(k) == IF k = 1 THEN {} ELSE log[k - 1].after

\* C9: mark_deleted(f) removes f's row iff there is one, changes nothing when
\* there is none, keeps every other row, and a second mark_deleted(f) right
\* after the first leaves the table as the first left it.
C9_MarkDeletedRemovesOnlyF ==
    \A k \in 1..Len(log) :
        log[k].op = "mark_deleted" =>
            /\ log[k].f \notin RowFingerprints(log[k].after)
            /\ (log[k].f \in RowFingerprints(Before(k))) <=> (log[k].after # Before(k))
            /\ {r \in Before(k) : r.fingerprint # log[k].f} = log[k].after
            /\ (k < Len(log) /\ log[k + 1].op = "mark_deleted" /\ log[k + 1].f = log[k].f)
                  => log[k + 1].after = log[k].after

C9_Witness ==
    \E k \in 1..Len(log) :
        /\ k < Len(log)
        /\ log[k].op = "mark_deleted"
        /\ log[k + 1].op = "mark_deleted"
        /\ log[k + 1].f = log[k].f
        /\ log[k].f \in RowFingerprints(Before(k))
        /\ log[k].after # {}

\* The fingerprints recorded up to the k-th call and not marked deleted since.
LiveAt(k) ==
    {f \in Fingerprints :
        \E j \in 1..k :
            /\ log[j].op = "record_usage" /\ log[j].f = f
            /\ \A m \in (j + 1)..k : ~(log[m].op = "mark_deleted" /\ log[m].f = f)}

\* C10: a fingerprint marked deleted and not recorded again is never returned
\* by record_usage and does not count toward the capacity.
C10_DeletedNeverExpired ==
    \A k \in 1..Len(log) :
        log[k].op = "record_usage" =>
            /\ Range(log[k].ret) \subseteq LiveAt(k)
            /\ Len(log[k].ret) = Excess(Cardinality(LiveAt(k)))

C10_Witness ==
    /\ maximum_resources = 1
    /\ Len(log) = 3
    /\ log[1].op = "record_usage"
    /\ log[2].op = "mark_deleted" /\ log[2].f = log[1].f
    /\ log[3].op = "record_usage" /\ log[3].f # log[1].f
    /\ log[3].ret = <<>>


\* ------------------------------------------------------------- fingerprint
\* The characters strings are made of here: a letter and the line feed.
Chars == {"x", "\n"}

RECURSIVE StringsOfLen(_)
StringsOfLen(n) ==
    IF n = 0 THEN {<<>>}
    ELSE {Append(t, c) : t \in StringsOfLen(n - 1), c \in Chars}

Strings == UNION {StringsOfLen(n) : n \in 0..MaxStringLen}

\* char::escape_debug, as `{:?}` applies it to each character of a path.
EscapeDebug(c) ==
    CASE c = "\n" -> <<"\\", "n">>
      [] c = "\"" -> <<"\\", "\"">>
      [] c = "\\" -> <<"\\", "\\">>
      [] OTHER -> <<c>>

\* format!("{:?}", path): the escaped characters between double quotes.
RECURSIVE Debug(_)
Debug(path) ==
    IF path = <<>> THEN <<"\"">>
    ELSE IF Len(path) = 1 THEN <<"\"">> \o EscapeDebug(path[1]) \o <<"\"">>
    ELSE LET rest == Debug(Tail(path))
         IN <<"\"">> \o EscapeDebug(path[1]) \o Tail(rest)

\* sha256::digest: the digest stands for the string hashed; two digests are
\* equal exactly when the strings are (no collision of SHA-256 is modelled).
sha256_digest(input) == <<"sha256">> \o input

\* The place of a digest that has not been computed.
NoDigest == <<>>

\* main.rs:44, sha256::digest(format!("{:?}:{}", opt.python, requirements)).
shasum_input(python, requirements) == Debug(python) \o <<":">> \o requirements
main_shasum(python, requirements) == sha256_digest(shasum_input(python, requirements))

\* venv.rs:93-98, sha256::digest(format!("{python_version}\n\n{requirements}")).
venv_sha_input(python_version, requirements) ==
    python_version \o <<"\n", "\n">> \o requirements
venv_sha(python_version, requirements) ==
    sha256_digest(venv_sha_input(python_version, requirements))

\* main.rs:43-44: the driver computes the fingerprint it names the directory
\* and keys the journal with.
ComputeShasum(i) ==
    /\ digests[i].shasum = NoDigest
    /\ digests' = [digests EXCEPT
                     ![i].shasum = main_shasum(opt[i].python, opt[i].requirements)]
    /\ UNCHANGED <<opt, notFingerprint>>

\* venv.rs:93-98: venv_sha on the same invocation's inputs.
ComputeVenvSha(i) ==
    /\ digests[i].venv_sha = NoDigest
    /\ digests' = [digests EXCEPT
                     ![i].venv_sha = venv_sha(opt[i].python_version, opt[i].requirements)]
    /\ UNCHANGED <<opt, notFingerprint>>

\* Invocations with any interpreter path (of one character), any identity
\* string and any requirements text; the other parts are idle.
FingerprintInit ==
    /\ opt \in [Invocations -> [python : StringsOfLen(1),
                                 python_version : Strings,
                                 requirements : Strings]]
    /\ digests = [i \in Invocations |-> [shasum |-> NoDigest, venv_sha |-> NoDigest]]
    /\ resources = {}
    /\ maximum_resources = 0
    /\ clock = 1
    /\ log = <<>>
    /\ LockIdle
    /\ DriverIdle

FingerprintNext ==
    \E i \in Invocations :
        \/ ComputeShasum(i)
        \/ ComputeVenvSha(i)

SpecFingerprint == FingerprintInit /\ [][FingerprintNext]_vars

\* -------------------------------------------------- fingerprint properties
\* The pair the fingerprint is to be a function of.
IdentityAndRequirements(i) == <<opt[i].python_version, opt[i].requirements>>

\* C15: the fingerprint the driver names the directory and keys the journal
\* with is a function of the pair (interpreter identity, requirements text)
\* alone: equal pairs give equal fingerprints, and pairs that differ give
\* different strings to hash, hence different fingerprints.
C15_FingerprintOfIdentityAndRequirements ==
    \A i, j \in Invocations :
        (digests[i].shasum # NoDigest /\ digests[j].shasum # NoDigest) =>
            (IdentityAndRequirements(i) = IdentityAndRequirements(j)
                <=> digests[i].shasum = digests[j].shasum)

====
